---- MODULE Spec2Model ----
(***************************************************************************)
(* State-machine model of src/scripts.js: the chat widget's request        *)
(* dispatcher (sendMessage / fetchWithRetry), its transcript renderer      *)
(* (addMessage / setLoadingState) and the handlers that drive them.        *)
(*                                                                         *)
(* JavaScript runs every handler and every continuation of an async        *)
(* function to its next await without interleaving, so one action is one   *)
(* such run.  Strings are sequences of tokens; " " is the whitespace       *)
(* token, and String.includes is membership of the searched token.         *)
(***************************************************************************)
EXTENDS Integers, Sequences, FiniteSets, TLC

\* ---------------------------------------------------------------- bounds
MaxSends == 2          \* dispatches started in one behaviour
MaxLen == 2            \* length of the text typed into #user-input

\* ------------------------------------------------------------- constants
MAX_RETRIES == 3
RETRY_DELAY == 2000

\* ---------------------------------------------------------------- values
Chars == {" ", "a"}

Inputs == UNION {[1..n -> Chars] : n \in 0..MaxLen}

\* the two kinds of typed text: a message, a blank
FormInputs == { <<"a">>, <<" ">> }

\* HTTP statuses the server may answer with (boundaries of 2xx, 4xx, 5xx)
Statuses == {200, 400, 499, 500}

\* what fetch() rejects with
FetchErrors ==
    { [name |-> "TypeError", message |-> <<"Failed to fetch">>],
      [name |-> "AbortError", message |-> <<"The user aborted a request.">>] }

\* JavaScript values found in a parsed JSON body
Undef == [t |-> "undefined"]
Str(s) == [t |-> "string", s |-> s]
Num(n) == [t |-> "number", n |-> n]

ReplyTexts == { <<>>, <<"X">> }
ErrorTexts == { <<"bad", " ", "request">>, <<"model", " ", "is", " ", "loading">>,
                <<"rate limit", " ", "exceeded">> }

\* bodies: not JSON at all, JSON null, a JSON primitive, or a JSON object
Bodies ==
    { [kind |-> "invalid"], [kind |-> "null"], [kind |-> "primitive"] }
    \cup { [kind |-> "object", response |-> r, error |-> Undef]
             : r \in {Undef, Num(42)} \cup {Str(x) : x \in ReplyTexts} }
    \cup { [kind |-> "object", response |-> Undef, error |-> Str(e)]
             : e \in ErrorTexts }

VARIABLES
    userInputValue,      \* userInput.value
    userInputDisabled,   \* userInput.disabled
    sendButtonDisabled,  \* sendButton.disabled
    chatMessages,        \* children of #chat-messages, in document order
    intervals,           \* handles of setInterval timers not yet cleared
    onLine,              \* window.navigator.onLine
    nSends,              \* number of dispatches started so far
    disp,                \* per dispatch: position in sendMessage + history
    lastBlank,           \* history: the last handler run was a rejected send
    page,                \* how far the script got in the current document
    session,             \* sessionStorage, the sessionId variable, id history
    requests,            \* history: url and X-Session-ID of every fetch made
    health,              \* the DOMContentLoaded handler's position + history
    scroll,              \* window.isScrolling, scrollToChat's timers, history
    pendingReplies       \* 1000 ms timers of the form's submit handler

vars == <<userInputValue, userInputDisabled, sendButtonDisabled, chatMessages,
          intervals, onLine, nSends, disp, lastBlank, page, session, requests,
          health, scroll, pendingReplies>>

\* what the dispatcher's own steps leave alone
pageVars == <<page, session, health, scroll, pendingReplies>>

\* ------------------------------------------------------- pure operators
IsSpace(c) == c = " "

RECURSIVE TrimStart(_)
TrimStart(s) ==
    IF s = <<>> THEN <<>>
    ELSE IF IsSpace(Head(s)) THEN TrimStart(Tail(s)) ELSE s

RECURSIVE TrimEnd(_)
TrimEnd(s) ==
    IF s = <<>> THEN <<>>
    ELSE IF IsSpace(s[Len(s)]) THEN TrimEnd(SubSeq(s, 1, Len(s) - 1)) ELSE s

\* the message taken as typed
TrimForgotten(s) == s

\* String.prototype.trim
Trim(s) == TrimEnd(TrimStart(s))

\* String.prototype.includes, at token granularity
Includes(s, needle) == \E k \in 1..Len(s) : s[k] = needle

\* response.ok
ResponseOk(status) == status >= 200 /\ status <= 299

\* only a successful response ends the retry loop
IsTerminalOnlyIfOk(status) == ResponseOk(status)

\* line 76: the response ends the retry loop
IsTerminalResponse(status) ==
    ResponseOk(status) \/ (status >= 400 /\ status < 500)

\* one attempt too few
HasRetryLeftOffByOne(i) == i < MAX_RETRIES - 2

\* lines 81 and 89: another attempt is left
HasRetryLeft(i) == i < MAX_RETRIES - 1

\* line 65: the loop condition
LoopContinues(i) == i < MAX_RETRIES

\* an AbortError is retried like any other rejection
RetriesAbortToo(i, error) == HasRetryLeft(i)

\* line 89: a rejected fetch is retried
RetriesError(i, error) == HasRetryLeft(i) /\ error.name # "AbortError"

\* JavaScript truthiness of a parsed value
Truthy(v) ==
    \/ v.t = "string" /\ v.s # <<>>
    \/ v.t = "number" /\ v.n # 0

\* String(v), as new Error(v) applies it to its argument
StringOf(v) == IF v.t = "string" THEN v.s ELSE <<"42">>

\* ------------------------------------------------------------ transcript
\* addMessage (lines 159-202): the element appended for text and sender.
\* Only sender 'bot' is assigned through innerHTML; a bot text that is not
\* a string has no replace method and makes addMessage throw before
\* appendChild.
AddMessageThrows(v, sender) == sender = "bot" /\ v.t # "string"

\* every sender's text is assigned through innerHTML
UsesInnerHTMLAlways(sender) == TRUE

UsesInnerHTML(sender) == sender = "bot"

\* --- lines 175-188: the formatting of a bot text.  A text is a sequence of
\* tokens; "#", "-", "**" and "\n" are the characters the patterns look for,
\* \s matches " " and "\n", and . matches every token but "\n".
IsWhitespace(c) == c \in {" ", "\n"}

AtLineStart(s, p) == p = 1 \/ s[p - 1] = "\n"

\* the \s+ of /^X\s+(.+)$/ after the mark at p: the lengths it can take so
\* that one token of the line is left for (.+)
SpaceRuns(s, p) ==
    { k \in 1..(Len(s) - p - 1) :
        /\ \A j \in (p + 1)..(p + k) : IsWhitespace(s[j])
        /\ s[p + k + 1] # "\n" }

Longest(K) == CHOOSE k \in K : \A j \in K : j <= k

\* $ with the m flag: the last position of the line that starts at p
LineEnd(s, p) ==
    CHOOSE e \in p..Len(s) :
        /\ \A j \in p..e : s[j] # "\n"
        /\ e = Len(s) \/ s[e + 1] = "\n"

\* s.replace(/^X\s+(.+)$/gm, pre + '$1' + post) from position p on, X = mark
RECURSIVE ReplaceLines(_, _, _, _, _)
ReplaceLines(s, p, mark, pre, post) ==
    IF p > Len(s) THEN <<>>
    ELSE IF s[p] = mark /\ AtLineStart(s, p) /\ SpaceRuns(s, p) # {}
         THEN LET from == p + Longest(SpaceRuns(s, p)) + 1
                  to == LineEnd(s, from)
              IN  pre \o SubSeq(s, from, to) \o post
                      \o ReplaceLines(s, to + 1, mark, pre, post)
         ELSE <<s[p]>> \o ReplaceLines(s, p + 1, mark, pre, post)

\* line 178
FormatHeaders(s) == ReplaceLines(s, 1, "#", <<"<strong>">>, <<"</strong>">>)

\* the ** that closes the one at p: the nearest one on the same line
Closings(s, p) ==
    { q \in (p + 1)..Len(s) :
        s[q] = "**" /\ \A j \in (p + 1)..(q - 1) : s[j] \notin {"**", "\n"} }

\* line 180: s.replace(/\*\*(.*?)\*\*/g, '<strong>$1</strong>') from p on
RECURSIVE ReplaceBold(_, _)
ReplaceBold(s, p) ==
    IF p > Len(s) THEN <<>>
    ELSE IF s[p] = "**" /\ Closings(s, p) # {}
         THEN LET q == CHOOSE c \in Closings(s, p) : TRUE
              IN  <<"<strong>">> \o SubSeq(s, p + 1, q - 1) \o <<"</strong>">>
                      \o ReplaceBold(s, q + 1)
         ELSE <<s[p]>> \o ReplaceBold(s, p + 1)

FormatBold(s) == ReplaceBold(s, 1)

\* line 182; "(bullet)" stands for the bullet character U+2022
FormatBullets(s) == ReplaceLines(s, 1, "-", <<"(bullet)", " ">>, <<>>)

\* line 184: split('\n\n').join('</p><p>')
RECURSIVE FormatParagraphs(_)
FormatParagraphs(s) ==
    IF s = <<>> THEN <<>>
    ELSE IF Len(s) >= 2 /\ s[1] = "\n" /\ s[2] = "\n"
         THEN <<"</p><p>">> \o FormatParagraphs(SubSeq(s, 3, Len(s)))
         ELSE <<s[1]>> \o FormatParagraphs(Tail(s))

\* line 186: split('\n').join('<br>')
FormatLineBreaks(s) == [k \in 1..Len(s) |-> IF s[k] = "\n" THEN "<br>" ELSE s[k]]

\* lines 176-186
FormattedText(text) ==
    FormatLineBreaks(FormatParagraphs(FormatBullets(FormatBold(FormatHeaders(text)))))

\* line 188 for a bot entry, line 191 for the others: what the element
\* holds, markup to be parsed or literal text
Content(text, sender) ==
    IF UsesInnerHTML(sender)
    THEN <<"<p>">> \o FormattedText(text) \o <<"</p>">>
    ELSE text

MessageElement(text, sender, d) ==
    [tag |-> "message", sender |-> sender, text |-> text,
     html |-> UsesInnerHTML(sender), content |-> Content(text, sender), d |-> d]

\* setLoadingState(true), lines 233-247: the typing indicator; its
\* dotInterval handle is the number of the dispatch that created it
TypingElement(d) ==
    [tag |-> "typing", sender |-> "bot", text |-> <<"botlynx is thinking">>,
     html |-> TRUE, content |-> <<"<span>", "botlynx is thinking", "</span>">>,
     d |-> d]

IsTyping(e) == e.tag = "typing"

HasTyping(dom) == \E k \in 1..Len(dom) : IsTyping(dom[k])

\* document.getElementById('typing-indicator'): first match in document order
FirstTyping(dom) == CHOOSE k \in 1..Len(dom) :
                        IsTyping(dom[k]) /\ \A j \in 1..(k - 1) : ~IsTyping(dom[j])

RemoveAt(dom, k) == SubSeq(dom, 1, k - 1) \o SubSeq(dom, k + 1, Len(dom))

\* the child before the last one is removed, whatever it is
RemoveChildBeforeLast(dom) ==
    IF HasTyping(dom) THEN RemoveAt(dom, Len(dom) - 1) ELSE dom

\* setLoadingState(false), lines 259-266, on the transcript
RemoveTypingIndicator(dom) ==
    IF HasTyping(dom) THEN RemoveAt(dom, FirstTyping(dom)) ELSE dom

\* setLoadingState(false), lines 262-264, on the running intervals
ClearDotInterval(dom, running) ==
    IF HasTyping(dom) THEN running \ {dom[FirstTyping(dom)].d} ELSE running

\* one appended entry as the dispatch's history keeps it: what was appended
\* and whether a typing indicator was in the transcript at that moment
Added(text, sender, dom) ==
    [sender |-> sender, text |-> text, typing |-> HasTyping(dom)]

\* ------------------------------------------------------------ catch block
MsgDefault == <<"I apologize, but I'm having trouble responding right now.">>
MsgOffline == <<"Network connection lost. Please check your internet connection and try again.">>
MsgUnreachable == <<"Unable to connect to the AI service. Please make sure the server is running on localhost:3001.">>
MsgWarmingUp == <<"The AI model is starting up. Please wait a moment and try again.">>
MsgRateLimited == <<"Too many requests. Please wait a moment before sending another message.">>
MsgFallback == <<"I received your message but couldn't generate a proper response. Please try again.">>

\* lines 139-151
ErrorMessage(online, error) ==
    IF ~online THEN MsgOffline
    ELSE IF Includes(error.message, "Failed to fetch") \/ error.name = "TypeError"
         THEN MsgUnreachable
    ELSE IF Includes(error.message, "loading") THEN MsgWarmingUp
    ELSE IF Includes(error.message, "rate limit") THEN MsgRateLimited
    ELSE IF error.message # <<>> THEN <<"Error:", " ">> \o error.message
    ELSE MsgDefault

\* ------------------------------------------------- body of the try block
\* lines 123-134, after fetchWithRetry returned a response with this status
\* and the body arrived: what the try block does.  kind "throw" carries the
\* error thrown to the catch block, kind "bot" the text handed to addMessage.
JsonError == [name |-> "SyntaxError", message |-> <<"Unexpected token">>]
NullError == [name |-> "TypeError", message |-> <<"Cannot read properties of null">>]
UndefinedError == [name |-> "TypeError", message |-> <<"Cannot read properties of undefined">>]
ReplaceError == [name |-> "TypeError", message |-> <<"text.replace is not a function">>]

Field(body, f) ==
    IF body.kind = "object" THEN (IF f = "response" THEN body.response ELSE body.error)
    ELSE Undef

\* `Server error: ${response.status}`
ServerErrorText(status) == <<"Server error:", " ", ToString(status)>>

\* line 127
ThrownForStatus(body, status) ==
    [name |-> "Error",
     message |-> IF Truthy(Field(body, "error")) THEN StringOf(Field(body, "error"))
                 ELSE ServerErrorText(status)]

\* the status check left out
RejectsStatusNever(status) == FALSE

\* line 126
RejectsStatus(status) == ~ResponseOk(status)

\* the reply read from the wrong field
ReplyFromErrorField(body) == Field(body, "error")

\* lines 130-131: responseData.response
Reply(body) == Field(body, "response")

TryOutcome(status, body) ==
    IF body.kind = "invalid" THEN [kind |-> "throw", error |-> JsonError]
    ELSE IF body.kind = "null" THEN [kind |-> "throw", error |-> NullError]
    ELSE IF RejectsStatus(status)
         THEN [kind |-> "throw", error |-> ThrownForStatus(body, status)]
    ELSE IF Truthy(Reply(body))
         THEN IF AddMessageThrows(Reply(body), "bot")
              THEN [kind |-> "throw", error |-> ReplaceError]
              ELSE [kind |-> "bot", text |-> Reply(body).s]
    ELSE [kind |-> "bot", text |-> MsgFallback]

\* ------------------------------------------------------ dispatch records
NoBody == [kind |-> "none"]
NoError == [name |-> "none", message |-> <<>>]

Call == [ev |-> "call", ms |-> 0]
Delay(ms) == [ev |-> "delay", ms |-> ms]

\* -------------------------------------------------- session identifier
\* sessionStorage of the tab: it works, or reading it throws (storage
\* access denied), or writing it throws (no quota)
StorageModes == {"ok", "getItem throws", "setItem throws"}

\* getItem returns null for a key that was never set
NoId == 0

\* line 42: a random part and the clock make an identifier that was not
\* produced before in this tab; identifiers are numbered in order of creation
GenerateSessionId(generated) == generated + 1

\* the stored identifier is not consulted
SessionAlwaysFresh(s) ==
    LET fresh == GenerateSessionId(s.generated)
    IN  [s EXCEPT !.id = fresh, !.generated = fresh, !.item = fresh, !.loads = @ + 1]

\* lines 46-50; session.item is the stored 'chatSessionId', session.id the
\* script's sessionId variable, session.generated and session.loads count
\* the identifiers made and the script runs in this tab
SessionAfterLoad(s) ==
    IF s.mode = "getItem throws"
    THEN [s EXCEPT !.loads = @ + 1]
    ELSE IF s.item # NoId
         THEN [s EXCEPT !.id = s.item, !.loads = @ + 1]
         ELSE LET fresh == GenerateSessionId(s.generated)
              IN  [s EXCEPT !.id = fresh,
                            !.generated = fresh,
                            !.item = IF s.mode = "ok" THEN fresh ELSE @,
                            !.loads = @ + 1]

\* an exception at lines 46-50 ends the script before line 53
LoadThrows(s) ==
    \/ s.mode = "getItem throws"
    \/ s.mode = "setItem throws" /\ s.item = NoId

\* the header is left out
ChatRequestNoHeader == [url |-> "/api/chat", sid |-> NoId, load |-> session.loads]

\* lines 67-73: every attempt of fetchWithRetry carries the header
ChatRequest == [url |-> "/api/chat", sid |-> session.id, load |-> session.loads]

\* line 315: fetch is called with the url alone
HealthRequest == [url |-> "/api/health", sid |-> NoId, load |-> session.loads]

\* ---------------------------------------------------------- health probe
MsgNoService ==
    <<"Unable to connect to AI service. Please make sure the server is running on localhost:3001">>

HealthIdle == [pc |-> "idle", calls |-> 0, status |-> 0, read |-> FALSE, entries |-> 0]

\* the handler of line 355 ran to its end after a 2xx answer with a JSON body
HealthPassed == [pc |-> "done", calls |-> 1, status |-> 200, read |-> TRUE, entries |-> 0]

\* ---------------------------------------------------------- scrollToChat
\* section: #chat-section exists; isScrolling: window.isScrolling is true;
\* focuses, cleanups: pending 300 ms and 400 ms timers; animating: the
\* browser's smooth scroll is under way; focused: #user-input has the focus;
\* history: started counts the scrolls started, overlapped tells that one
\* was started during the animation of another, refused that the last call
\* returned at line 9
ScrollIdle(section) ==
    [section |-> section, isScrolling |-> FALSE, focuses |-> 0, cleanups |-> 0,
     animating |-> FALSE, focused |-> FALSE, started |-> 0, overlapped |-> FALSE,
     refused |-> FALSE]

\* ------------------------------------------------------------------ init
\* the document as the script finds it
WidgetInit ==
    /\ userInputValue = <<>>
    /\ userInputDisabled = FALSE
    /\ sendButtonDisabled = FALSE
    /\ chatMessages = <<>>
    /\ intervals = {}
    /\ nSends = 0
    /\ disp = <<>>
    /\ lastBlank = FALSE
    /\ pendingReplies = 0

\* the script has run in a tab whose storage works and the health probe of
\* the DOMContentLoaded handler has passed
Init ==
    /\ WidgetInit
    /\ onLine = TRUE
    /\ page = "ready"
    /\ session = SessionAfterLoad([mode |-> "ok", item |-> NoId, id |-> NoId,
                                   generated |-> 0, loads |-> 0])
    /\ requests = {HealthRequest}
    /\ health = HealthPassed
    /\ scroll = ScrollIdle(TRUE)

InFlight(d) == d \in 1..nSends /\ disp[d].pc \in {"fetch", "delay", "json"}

\* the record of a settled dispatch stays readable (pc = "done") in the state
\* that follows its settlement; the next step of the widget retires it
Retired ==
    [pc |-> "retired", i |-> 0, message |-> <<>>, status |-> 0, calls |-> 0,
     trace |-> <<>>, all5xx |-> FALSE, adds |-> <<>>, caught |-> NoError,
     body |-> NoBody, online |-> TRUE, rejected |-> NoError]

Retire(ds) == [d \in DOMAIN ds |-> IF ds[d].pc = "done" THEN Retired ELSE ds[d]]

\* ----------------------------------------------------------- sendMessage
\* lines 99-119: the synchronous part of sendMessage, up to the first fetch
\* of fetchWithRetry.  The history fields of the dispatch record are calls
\* (network calls made), trace (calls and retry timers in order), all5xx
\* (every attempt so far was answered 5xx), adds (entries appended), and
\* caught, body, online (what the settlement saw).  status is
\* response.status of the latest attempt, 0 when it had no response, and
\* rejected is what that attempt's fetch rejected with when a retry follows.
SendMessage(value) ==
    LET message == Trim(value)
        d == nSends + 1
        withUser == Append(chatMessages, MessageElement(message, "user", d))
    IN  IF message = <<>>
        THEN /\ lastBlank' = TRUE
             /\ UNCHANGED <<pageVars, requests>>
             /\ userInputValue' = value
             /\ disp' = Retire(disp)
             /\ UNCHANGED <<userInputDisabled, sendButtonDisabled, chatMessages,
                            intervals, onLine, nSends>>
        ELSE /\ nSends < MaxSends
             /\ lastBlank' = FALSE
             /\ requests' = requests \cup {ChatRequest}
             /\ UNCHANGED pageVars
             /\ userInputValue' = <<>>
             /\ userInputDisabled' = TRUE
             /\ sendButtonDisabled' = TRUE
             /\ chatMessages' = Append(withUser, TypingElement(d))
             /\ intervals' = intervals \cup {d}
             /\ nSends' = d
             /\ disp' = Append(Retire(disp),
                    [pc |-> "fetch", i |-> 0, message |-> message, status |-> 0,
                     calls |-> 1, trace |-> <<Call>>, all5xx |-> TRUE,
                     adds |-> <<Added(message, "user", chatMessages)>>,
                     caught |-> NoError, body |-> NoBody, online |-> TRUE,
                     rejected |-> NoError])
             /\ UNCHANGED onLine

\* the user edits the enabled input field
TypeInput(v) ==
    /\ page # "unloaded"
    /\ ~userInputDisabled
    /\ nSends < MaxSends
    /\ userInputValue # v
    /\ userInputValue' = v
    /\ lastBlank' = FALSE
    /\ UNCHANGED <<pageVars, requests>>
    /\ disp' = Retire(disp)
    /\ UNCHANGED <<userInputDisabled, sendButtonDisabled, chatMessages,
                   intervals, onLine, nSends>>

\* lines 272-277
KeypressEnter ==
    /\ page = "ready"
    /\ ~userInputDisabled
    /\ SendMessage(userInputValue)

\* lines 291-296
ClickSend ==
    /\ page = "ready"
    /\ ~sendButtonDisabled
    /\ SendMessage(userInputValue)

\* lines 385-389: another script calls window.chatbot.sendMessage(), which
\* checks neither disabled flag, on the field as it is or after putting its
\* message v in it
ChatbotSendMessage(v) ==
    /\ page = "ready"
    /\ v = userInputValue \/ Trim(v) # <<>>
    /\ SendMessage(v)

\* ------------------------------------------------- settlement of a dispatch
\* setLoadingState(false) run before the outcome entry is appended
SettleAfterRemoval(d, text, sender, error, body) ==
    LET cleared == RemoveTypingIndicator(chatMessages)
    IN  /\ chatMessages' = Append(cleared, MessageElement(text, sender, d))
        /\ intervals' = ClearDotInterval(chatMessages, intervals)
        /\ userInputDisabled' = FALSE
        /\ sendButtonDisabled' = FALSE
        /\ disp' = [Retire(disp) EXCEPT ![d].pc = "done",
                                ![d].status = IF error \in FetchErrors THEN 0 ELSE @,
                                ![d].all5xx = @ /\ error \notin FetchErrors,
                                ![d].adds = Append(@, Added(text, sender, cleared)),
                                ![d].caught = error,
                                ![d].body = body,
                                ![d].online = onLine]
        /\ lastBlank' = FALSE
        /\ UNCHANGED <<pageVars, requests>>
        /\ UNCHANGED <<userInputValue, onLine, nSends>>

\* lines 131/133/153 followed by the finally block, line 155: the outcome
\* entry is appended, then setLoadingState(false) runs.  body is NoBody when
\* no body was read, error is NoError when nothing was thrown.
Settle(d, text, sender, error, body) ==
    LET withOutcome == Append(chatMessages, MessageElement(text, sender, d))
    IN  /\ chatMessages' = RemoveTypingIndicator(withOutcome)
        /\ intervals' = ClearDotInterval(withOutcome, intervals)
        /\ userInputDisabled' = FALSE
        /\ sendButtonDisabled' = FALSE
        /\ disp' = [Retire(disp) EXCEPT ![d].pc = "done",
                                ![d].status = IF error \in FetchErrors THEN 0 ELSE @,
                                ![d].all5xx = @ /\ error \notin FetchErrors,
                                ![d].adds = Append(@, Added(text, sender, chatMessages)),
                                ![d].caught = error,
                                ![d].body = body,
                                ![d].online = onLine]
        /\ lastBlank' = FALSE
        /\ UNCHANGED <<pageVars, requests>>
        /\ UNCHANGED <<userInputValue, onLine, nSends>>

\* lines 136-153
Catch(d, error, body) ==
    Settle(d, ErrorMessage(onLine, error), "error", error, body)

\* ---------------------------------------------------------- fetchWithRetry
Suspend(d, pc, status, is5xx, error) ==
    /\ disp' = [Retire(disp) EXCEPT ![d].pc = pc,
                            ![d].status = status,
                            ![d].all5xx = @ /\ is5xx,
                            ![d].rejected = error,
                            ![d].trace = IF pc = "delay"
                                         THEN Append(@, Delay(RETRY_DELAY)) ELSE @]
    /\ lastBlank' = FALSE
    /\ UNCHANGED <<pageVars, requests>>
    /\ UNCHANGED <<userInputValue, userInputDisabled, sendButtonDisabled,
                   chatMessages, intervals, onLine, nSends>>

\* lines 67-87: the pending fetch resolves with a response
FetchResolves(d, status) ==
    /\ InFlight(d)
    /\ disp[d].pc = "fetch"
    /\ LET is5xx == status >= 500 /\ status <= 599
       IN  IF IsTerminalResponse(status)
           THEN Suspend(d, "json", status, is5xx, NoError)
           ELSE IF HasRetryLeft(disp[d].i)
                THEN Suspend(d, "delay", status, is5xx, NoError)
                ELSE Suspend(d, "json", status, is5xx, NoError)

\* lines 88-95: the pending fetch rejects
FetchRejects(d, error) ==
    /\ InFlight(d)
    /\ disp[d].pc = "fetch"
    /\ IF RetriesError(disp[d].i, error)
       THEN Suspend(d, "delay", 0, FALSE, error)
       ELSE Catch(d, error, NoBody)

\* the promise of lines 83/91 is never resolved
RetryTimerNeverResolves(d) ==
    /\ InFlight(d)
    /\ disp[d].pc = "delay"
    /\ UNCHANGED vars

\* lines 83/91 and 65-67: the retry timer fires, the next attempt is made
RetryTimerFires(d) ==
    /\ InFlight(d)
    /\ disp[d].pc = "delay"
    /\ IF LoopContinues(disp[d].i + 1)
       THEN /\ disp' = [Retire(disp) EXCEPT ![d].pc = "fetch",
                                            ![d].i = @ + 1,
                                            ![d].calls = @ + 1,
                                            ![d].trace = Append(@, Call)]
            /\ lastBlank' = FALSE
            /\ requests' = requests \cup {ChatRequest}
            /\ UNCHANGED pageVars
            /\ UNCHANGED <<userInputValue, userInputDisabled, sendButtonDisabled,
                           chatMessages, intervals, onLine, nSends>>
       ELSE \* the loop ends, fetchWithRetry returns undefined, line 121 throws
            Catch(d, UndefinedError, NoBody)

\* lines 123-157: response.json() settles and sendMessage runs to its end
BodyArrives(d, body) ==
    /\ InFlight(d)
    /\ disp[d].pc = "json"
    /\ LET out == TryOutcome(disp[d].status, body)
       IN  IF out.kind = "throw"
           THEN Catch(d, out.error, body)
           ELSE Settle(d, out.text, "bot", NoError, body)

\* ------------------------------------------------------------ environment
\* the browser's online/offline state changes
ConnectivityChanges ==
    /\ \E d \in 1..nSends : InFlight(d)
    /\ onLine' = ~onLine
    /\ lastBlank' = FALSE
    /\ UNCHANGED <<pageVars, requests>>
    /\ disp' = Retire(disp)
    /\ UNCHANGED <<userInputValue, userInputDisabled, sendButtonDisabled,
                   chatMessages, intervals, nSends>>

GreetingClear == <<"Hello! I'm Botlynx. How can I help you today?">>
GreetingNew == <<"Hello! I'm Botlynx. What would you like to talk about today?">>

\* lines 498-512 and 517-531: innerHTML of #chat-messages is replaced
ReplaceTranscript(greeting) ==
    /\ page = "ready"
    /\ chatMessages' = << [tag |-> "message", sender |-> "bot", text |-> greeting,
                           html |-> TRUE,
                           content |-> <<"<p>">> \o greeting \o <<"</p>">>,
                           d |-> 0] >>
    /\ \E k \in 1..Len(chatMessages) :
           chatMessages[k].text \notin {GreetingClear, GreetingNew}
    /\ lastBlank' = FALSE
    /\ UNCHANGED <<pageVars, requests>>
    /\ disp' = Retire(disp)
    /\ UNCHANGED <<userInputValue, userInputDisabled, sendButtonDisabled,
                   intervals, onLine, nSends>>

ClearChatClick == ReplaceTranscript(GreetingClear)

NewChatClick == ReplaceTranscript(GreetingNew)

Next ==
    \/ \E v \in Inputs : TypeInput(v)
    \/ KeypressEnter
    \/ ClickSend
    \/ \E v \in Inputs : ChatbotSendMessage(v)
    \/ \E d \in 1..nSends, status \in Statuses : FetchResolves(d, status)
    \/ \E d \in 1..nSends, error \in FetchErrors : FetchRejects(d, error)
    \/ \E d \in 1..nSends : RetryTimerFires(d)
    \/ \E d \in 1..nSends, body \in Bodies : BodyArrives(d, body)
    \/ ConnectivityChanges
    \/ ClearChatClick
    \/ NewChatClick

Spec == Init /\ [][Next]_vars

\* ------------------------------------------------- the widget with fair
\* network and timers: every pending fetch is answered or fails, every
\* pending retry timer fires, every response body arrives or fails to parse
FetchSettles(d) ==
    \/ \E status \in Statuses : FetchResolves(d, status)
    \/ \E error \in FetchErrors : FetchRejects(d, error)

BodySettles(d) == \E body \in Bodies : BodyArrives(d, body)

NextLive ==
    \/ \E v \in FormInputs : TypeInput(v)
    \/ KeypressEnter
    \/ ChatbotSendMessage(<<"a">>)
    \/ \E d \in 1..nSends : FetchSettles(d)
    \/ \E d \in 1..nSends : RetryTimerFires(d)
    \/ \E d \in 1..nSends : BodySettles(d)
    \/ ConnectivityChanges

Fairness ==
    \A d \in 1..MaxSends :
        /\ WF_vars(FetchSettles(d))
        /\ WF_vars(RetryTimerFires(d))
        /\ WF_vars(BodySettles(d))

SpecLive == Init /\ [][NextLive]_vars /\ Fairness

\* ============================================== the script in its tab
MaxLoads == 2          \* runs of the script in one tab
MaxPageSends == 1      \* dispatches started per run of the script

\* a step of the widget that changes neither the page nor the history of
\* requests other than by a chat request
Quiet ==
    /\ lastBlank' = FALSE
    /\ disp' = Retire(disp)

\* lines 1-539 run top to bottom in a fresh document, then the
\* DOMContentLoaded handler (lines 355-359) runs to its await: the session
\* identifier is read or made, the handlers are attached unless lines 46-50
\* threw, and the health probe is sent
LoadScript ==
    /\ page = "unloaded"
    /\ session.loads < MaxLoads
    /\ session' = SessionAfterLoad(session)
    /\ IF LoadThrows(session)
       THEN /\ page' = "crashed"
            /\ UNCHANGED <<health, requests>>
       ELSE /\ page' = "ready"
            /\ health' = [HealthIdle EXCEPT !.pc = "fetch", !.calls = 1]
            /\ requests' = requests \cup {HealthRequest'}
    /\ Quiet
    /\ UNCHANGED <<userInputValue, userInputDisabled, sendButtonDisabled,
                   chatMessages, intervals, onLine, nSends, scroll, pendingReplies>>

\* the tab reloads the page: the document, its timers and its pending
\* requests are discarded; sessionStorage is kept
Reload ==
    /\ page # "unloaded"
    /\ page' = "unloaded"
    /\ session' = [session EXCEPT !.id = NoId]
    /\ health' = HealthIdle
    /\ scroll' = ScrollIdle(scroll.section)
    /\ userInputValue' = <<>>
    /\ userInputDisabled' = FALSE
    /\ sendButtonDisabled' = FALSE
    /\ chatMessages' = <<>>
    /\ intervals' = {}
    /\ nSends' = 0
    /\ disp' = <<>>
    /\ lastBlank' = FALSE
    /\ pendingReplies' = 0
    /\ UNCHANGED <<onLine, requests>>

\* line 362: the handler of DOMContentLoaded resumes with the probe's verdict
HealthDone(h, healthy) ==
    /\ IF healthy
       THEN /\ health' = [h EXCEPT !.pc = "done"]
            /\ UNCHANGED chatMessages
       ELSE /\ health' = [h EXCEPT !.pc = "done", !.entries = @ + 1]
            /\ chatMessages' = Append(chatMessages, MessageElement(MsgNoService, "error", 0))
    /\ Quiet
    /\ UNCHANGED <<userInputValue, userInputDisabled, sendButtonDisabled, intervals,
                   onLine, nSends, page, session, requests, scroll, pendingReplies>>

\* lines 315-326: the probe's fetch resolves
HealthResolves(status) ==
    /\ health.pc = "fetch"
    /\ IF ResponseOk(status)
       THEN /\ health' = [health EXCEPT !.pc = "json", !.status = status]
            /\ Quiet
            /\ UNCHANGED <<userInputValue, userInputDisabled, sendButtonDisabled,
                           chatMessages, intervals, onLine, nSends, page, session,
                           requests, scroll, pendingReplies>>
       ELSE HealthDone([health EXCEPT !.status = status], FALSE)

\* lines 321-324: the probe's fetch rejects
HealthRejects ==
    /\ health.pc = "fetch"
    /\ HealthDone(health, FALSE)

\* lines 317-324: response.json() of the probe settles; a body that is not
\* JSON makes it reject, which the catch block turns into false
HealthBodyArrives(body) ==
    /\ health.pc = "json"
    /\ HealthDone([health EXCEPT !.read = TRUE], body.kind # "invalid")

InitSession ==
    /\ WidgetInit
    /\ onLine = TRUE
    /\ page = "unloaded"
    /\ session \in [mode : StorageModes, item : {NoId}, id : {NoId},
                     generated : {0}, loads : {0}]
    /\ requests = {}
    /\ health = HealthIdle
    /\ scroll = ScrollIdle(TRUE)

NextSession ==
    \/ LoadScript
    \/ Reload
    \/ \E status \in Statuses : HealthResolves(status)
    \/ HealthRejects
    \/ \E body \in Bodies : HealthBodyArrives(body)
    \/ \E v \in Inputs : TypeInput(v)
    \/ KeypressEnter /\ nSends' <= MaxPageSends
    \/ \E d \in 1..nSends, status \in Statuses : FetchResolves(d, status)
    \/ \E d \in 1..nSends, error \in FetchErrors : FetchRejects(d, error)
    \/ \E d \in 1..nSends : RetryTimerFires(d)
    \/ \E d \in 1..nSends, body \in Bodies : BodyArrives(d, body)

SpecSession == InitSession /\ [][NextSession]_vars

\* ================================================================ claims
Settled(d) == d \in 1..nSends /\ disp[d].pc = "done"

Outcome(d) == disp[d].adds[Len(disp[d].adds)]

NumAdded(d, sender) ==
    Cardinality({k \in 1..Len(disp[d].adds) : disp[d].adds[k].sender = sender})

NumInTranscript(d, sender) ==
    Cardinality({k \in 1..Len(chatMessages) :
                    /\ chatMessages[k].tag = "message"
                    /\ chatMessages[k].d = d
                    /\ chatMessages[k].sender = sender})

OkOr4xx(status) == (status >= 200 /\ status <= 299) \/ (status >= 400 /\ status <= 499)

\* C1: a dispatch in which every attempt was answered 5xx has made exactly 3
\* network calls, with one RETRY_DELAY timer between consecutive calls and
\* none after the last, and has appended exactly one error entry.
C1_ExhaustedRetries ==
    \A d \in 1..nSends :
        (Settled(d) /\ disp[d].all5xx) =>
            /\ disp[d].calls = 3
            /\ disp[d].trace = <<Call, Delay(2000), Call, Delay(2000), Call>>
            /\ NumAdded(d, "error") = 1
            /\ NumAdded(d, "bot") = 0
            /\ NumInTranscript(d, "error") = 1

C1_Witness ==
    \E d \in 1..nSends : Settled(d) /\ disp[d].all5xx /\ disp[d].status = 500

\* C2: an ok or 4xx response ends the retry loop at the attempt it answers:
\* the dispatch goes on to read the body and makes no further network call;
\* a dispatch whose first response is 4xx has made exactly 1 call and appends
\* exactly one error entry.
C2_TerminalResponse ==
    [][\A d \in 1..nSends :
          LET a == disp[d]
              b == disp'[d]
          IN  /\ (a.pc = "fetch" /\ b.pc \in {"delay", "json"} /\ OkOr4xx(b.status))
                    => (b.pc = "json" /\ b.calls = a.calls /\ b.trace = a.trace)
              /\ (a.pc = "json" /\ OkOr4xx(a.status))
                    => (b.pc \in {"json", "done"} /\ b.calls = a.calls
                        /\ b.trace = a.trace)
              /\ (b.pc = "done" /\ b.i = 0 /\ b.status >= 400 /\ b.status <= 499)
                    => /\ b.calls = 1
                       /\ Len(b.adds) = 2
                       /\ b.adds[2].sender = "error"
       ]_vars

C2_Witness ==
    \E d \in 1..nSends :
        Settled(d) /\ disp[d].i = 0 /\ disp[d].status = 400 /\ disp[d].calls = 1

\* C3: a sendMessage that finds the input empty or whitespace-only changes
\* nothing: no dispatch record (so no network call), no transcript entry, no
\* change of the disabled flags, the intervals or the input value; and no
\* dispatch is ever started with a message made of whitespace only.
IsBlank(s) == \A k \in 1..Len(s) : s[k] = " "

C3_BlankInputRejected ==
    [][/\ lastBlank' =>
             /\ IsBlank(userInputValue')
             /\ nSends' = nSends
             /\ \A d \in 1..nSends :
                    disp'[d].pc # "retired" =>
                        (disp'[d].calls = disp[d].calls /\ disp'[d].adds = disp[d].adds)
             /\ UNCHANGED <<chatMessages, userInputDisabled, sendButtonDisabled,
                            intervals>>
       /\ nSends' # nSends => ~IsBlank(disp'[nSends'].message)
      ]_vars

C3_Witness ==
    lastBlank /\ userInputValue # <<>> /\ IsBlank(userInputValue)

\* the response of a settled dispatch carried the reply string x
RepliedWith(d, x) ==
    /\ Settled(d)
    /\ ResponseOk(disp[d].status)
    /\ disp[d].body.kind = "object"
    /\ disp[d].body.response = Str(x)

\* the dispatch appended its user entry, then one bot entry with this text,
\* and nothing else; the bot entry ends the transcript, after the user entry
OneBotEntry(d, text) ==
    /\ Len(disp[d].adds) = 2
    /\ disp[d].adds[1].sender = "user"
    /\ disp[d].adds[2].sender = "bot"
    /\ disp[d].adds[2].text = text
    /\ NumInTranscript(d, "bot") = 1
    /\ NumInTranscript(d, "error") = 0
    /\ chatMessages[Len(chatMessages)] = MessageElement(text, "bot", d)
    /\ \A k \in 1..Len(chatMessages) :
           (chatMessages[k].d = d /\ chatMessages[k].sender = "user")
               => k < Len(chatMessages)

\* C4, as claimed: for every reply string X, an ok response {response: X}
\* adds exactly one bot entry with text X after the user entry, and no error
\* entry.
C4_Original ==
    \A d \in 1..nSends : \A x \in ReplyTexts :
        RepliedWith(d, x) => OneBotEntry(d, x)

\* C4, amended: the same for every non-empty reply string X.
C4_NonEmptyReply ==
    \A d \in 1..nSends : \A x \in ReplyTexts :
        (RepliedWith(d, x) /\ x # <<>>) => OneBotEntry(d, x)

C4_Witness ==
    \E d \in 1..nSends :
        /\ RepliedWith(d, <<"X">>)
        /\ \E k \in 1..Len(chatMessages) :
               chatMessages[k].d = d /\ chatMessages[k].sender = "user"

\* C5, as claimed: the input field and the send button are disabled whenever
\* a dispatch is in flight, and enabled in the state that follows a
\* settlement.
C5_DisabledWhileInFlight ==
    /\ (\E d \in 1..nSends : InFlight(d))
           => (userInputDisabled /\ sendButtonDisabled)
    /\ (\E d \in 1..nSends : Settled(d))
           => (~userInputDisabled /\ ~sendButtonDisabled)

\* C6, as claimed: at most one dispatch is in flight at any time.
C6_AtMostOneInFlight ==
    Cardinality({d \in 1..nSends : InFlight(d)}) <= 1

\* C7, as claimed: the outcome entry of a dispatch is never appended while a
\* typing indicator is in the transcript.
C7_Original ==
    \A d \in 1..nSends : Settled(d) => ~Outcome(d).typing

\* C7, amended: when a dispatch settles, its outcome entry is appended to the
\* transcript as it stands, typing indicator included; within the same step
\* setLoadingState(false) then removes the first typing indicator of the
\* transcript, if there is one, and cancels that indicator's interval.
C7_OutcomeThenRemoval ==
    [][\A d \in 1..nSends :
          (InFlight(d) /\ disp'[d].pc = "done") =>
              LET last == disp'[d].adds[Len(disp'[d].adds)]
                  entry == MessageElement(last.text, last.sender, d)
              IN  /\ last.typing = HasTyping(chatMessages)
                  /\ HasTyping(chatMessages) =>
                        /\ chatMessages' =
                              Append(RemoveAt(chatMessages, FirstTyping(chatMessages)), entry)
                        /\ intervals' =
                              intervals \ {chatMessages[FirstTyping(chatMessages)].d}
                  /\ ~HasTyping(chatMessages) =>
                        /\ chatMessages' = Append(chatMessages, entry)
                        /\ intervals' = intervals
      ]_vars

C7_Witness ==
    \E d \in 1..nSends :
        Settled(d) /\ Outcome(d).typing /\ d \notin intervals /\ ~HasTyping(chatMessages)

\* a settled dispatch failed: its last fetch was rejected, or its response
\* was not ok, or the body was unparsable or null
Failed(d) ==
    \/ disp[d].body = NoBody
    \/ ~ResponseOk(disp[d].status)
    \/ disp[d].body.kind \in {"invalid", "null"}

\* C8: every dispatch leaves sendMessage with exactly one outcome entry
\* appended after its user entry, and a failed dispatch with exactly one
\* error entry, which ends the transcript; no dispatch ends otherwise.
C8_FailureSurfacedOnce ==
    \A d \in 1..nSends :
        /\ disp[d].pc \in {"fetch", "delay", "json", "done", "retired"}
        /\ InFlight(d) => (Len(disp[d].adds) = 1 /\ disp[d].caught = NoError)
        /\ Settled(d) =>
              /\ Len(disp[d].adds) = 2
              /\ disp[d].adds[1].sender = "user"
              /\ Outcome(d).sender \in {"bot", "error"}
              /\ Outcome(d).sender = "error" <=> disp[d].caught # NoError
              /\ chatMessages[Len(chatMessages)] =
                     MessageElement(Outcome(d).text, Outcome(d).sender, d)
              /\ Failed(d) =>
                    /\ Outcome(d).sender = "error"
                    /\ NumAdded(d, "error") = 1
                    /\ NumInTranscript(d, "error") = 1
                    /\ NumInTranscript(d, "bot") = 0

C8_Witness ==
    \E d \in 1..nSends :
        Settled(d) /\ disp[d].body.kind = "null" /\ Outcome(d).sender = "error"

\* C9, as claimed: only a transport-level failure (a rejected fetch) is shown
\* the service-unreachable message, and the error detail of a 4xx/5xx body is
\* shown in the generic message unless the browser is offline or the detail
\* tells of a loading model or a rate limit.
C9_ClassificationOrder ==
    \A d \in 1..nSends :
        (Settled(d) /\ disp[d].caught # NoError) =>
            /\ Outcome(d).text = MsgUnreachable => disp[d].body = NoBody
            /\ (disp[d].online /\ disp[d].body = NoBody /\ disp[d].caught.name = "TypeError")
                  => Outcome(d).text = MsgUnreachable
            /\ ~disp[d].online => Outcome(d).text = MsgOffline
            /\ (disp[d].online /\ ~ResponseOk(disp[d].status)
                  /\ disp[d].body.kind = "object" /\ disp[d].body.error.t = "string")
                  => Outcome(d).text =
                        IF Includes(disp[d].body.error.s, "loading") THEN MsgWarmingUp
                        ELSE IF Includes(disp[d].body.error.s, "rate limit") THEN MsgRateLimited
                        ELSE <<"Error:", " ">> \o disp[d].body.error.s

\* C10, as claimed: an ok response whose body has no reply field (absent
\* field, null body, body that is not an object) appends exactly one entry,
\* the fallback notice, and no error entry.
LacksReply(body) ==
    \/ body.kind \in {"null", "primitive"}
    \/ body.kind = "object" /\ body.response = Undef

C10_SoftFailure ==
    \A d \in 1..nSends :
        (Settled(d) /\ ResponseOk(disp[d].status) /\ LacksReply(disp[d].body))
            => OneBotEntry(d, MsgFallback)

\* ========================================================= scrollToChat
MaxScrolls == 3        \* scrolls started in one behaviour

ScrollFrame ==
    /\ Quiet
    /\ UNCHANGED <<userInputValue, userInputDisabled, sendButtonDisabled, chatMessages,
                   intervals, onLine, nSends, page, session, requests, health,
                   pendingReplies>>

\* the check of line 9 is left out
ScrollToChatUnguarded ==
    /\ page # "unloaded"
    /\ scroll.started < MaxScrolls
    /\ scroll' = IF ~scroll.section
                 THEN [scroll EXCEPT !.refused = FALSE]
                 ELSE [scroll EXCEPT !.isScrolling = TRUE,
                                     !.animating = TRUE,
                                     !.focuses = @ + 1,
                                     !.cleanups = @ + 1,
                                     !.started = @ + 1,
                                     !.overlapped = @ \/ scroll.animating,
                                     !.refused = FALSE]
    /\ ScrollFrame

\* lines 4-38: a navigation action calls scrollToChat()
ScrollToChat ==
    /\ page # "unloaded"
    /\ scroll.started < MaxScrolls
    /\ scroll' = IF ~scroll.section
                 THEN [scroll EXCEPT !.refused = FALSE]
                 ELSE IF scroll.isScrolling
                      THEN [scroll EXCEPT !.refused = TRUE]
                      ELSE [scroll EXCEPT !.isScrolling = TRUE,
                                          !.animating = TRUE,
                                          !.focuses = @ + 1,
                                          !.cleanups = @ + 1,
                                          !.started = @ + 1,
                                          !.overlapped = @ \/ scroll.animating,
                                          !.refused = FALSE]
    /\ ScrollFrame

\* lines 22-27: the 300 ms timer fires
FocusTimerFires ==
    /\ scroll.focuses > 0
    /\ scroll' = [scroll EXCEPT !.focuses = @ - 1, !.focused = TRUE, !.refused = FALSE]
    /\ ScrollFrame

\* lines 33-37: the 400 ms timer fires, after the 300 ms timer set with it
CleanupTimerFires ==
    /\ scroll.cleanups > 0
    /\ scroll.focuses < scroll.cleanups
    /\ scroll' = [scroll EXCEPT !.cleanups = @ - 1, !.isScrolling = FALSE,
                                !.refused = FALSE]
    /\ ScrollFrame

\* the browser finishes the smooth scroll of line 16, in its own time
AnimationEnds ==
    /\ scroll.animating
    /\ scroll' = [scroll EXCEPT !.animating = FALSE, !.refused = FALSE]
    /\ ScrollFrame

\* the user moves the focus away from #user-input
Blur ==
    /\ scroll.focused
    /\ scroll' = [scroll EXCEPT !.focused = FALSE, !.refused = FALSE]
    /\ ScrollFrame

InitScroll ==
    /\ WidgetInit
    /\ onLine = TRUE
    /\ page = "ready"
    /\ session = SessionAfterLoad([mode |-> "ok", item |-> NoId, id |-> NoId,
                                   generated |-> 0, loads |-> 0])
    /\ requests = {HealthRequest}
    /\ health = HealthPassed
    /\ scroll \in {ScrollIdle(section) : section \in BOOLEAN}

NextScroll ==
    \/ ScrollToChat
    \/ FocusTimerFires
    \/ CleanupTimerFires
    \/ AnimationEnds
    \/ Blur
    \/ \E v \in FormInputs : TypeInput(v)

SpecScroll == InitScroll /\ [][NextScroll]_vars

\* ================================================ the decorative chat form
MaxTranscript == 2     \* entries and pending replies up to which the form is submitted

\* lines 480-486
SimulatedResponses ==
    << <<"I'm analyzing your question...">>,
       <<"That's an interesting point. Here's what I think...">>,
       <<"Thanks for your message. Let me help with that...">>,
       <<"I understand what you're asking. Here's the information...">>,
       <<"Great question! Here's what I found...">> >>

\* line 487: the random index, here the first or the last of the array
RandomIndexes == {1, Len(SimulatedResponses)}


\* addUIMessage, lines 436-469: the text is assigned through textContent
UIMessageElement(content, isUser) ==
    [tag |-> "message", sender |-> IF isUser THEN "user" ELSE "bot",
     text |-> content, html |-> FALSE, content |-> content, d |-> 0]

\* lines 473-493: the form is submitted
FormSubmit ==
    LET message == Trim(userInputValue)
    IN  /\ page = "ready"
        /\ Len(chatMessages) + pendingReplies < MaxTranscript
        /\ IF message # <<>>
           THEN /\ chatMessages' = Append(chatMessages, UIMessageElement(message, TRUE))
                /\ userInputValue' = <<>>
                /\ pendingReplies' = pendingReplies + 1
           ELSE UNCHANGED <<chatMessages, userInputValue, pendingReplies>>
        /\ Quiet
        /\ UNCHANGED <<userInputDisabled, sendButtonDisabled, intervals, onLine, nSends,
                       page, session, requests, health, scroll>>

\* lines 479-489: a timer of the submit handler fires
SimulatedReply(index) ==
    /\ pendingReplies > 0
    /\ pendingReplies' = pendingReplies - 1
    /\ chatMessages' = Append(chatMessages,
                              UIMessageElement(SimulatedResponses[index], FALSE))
    /\ Quiet
    /\ UNCHANGED <<userInputValue, userInputDisabled, sendButtonDisabled, intervals,
                   onLine, nSends, page, session, requests, health, scroll>>

\* the script has just run in a tab whose storage works; the health probe
\* is on its way
InitTranscript ==
    /\ WidgetInit
    /\ onLine = TRUE
    /\ page = "ready"
    /\ session = SessionAfterLoad([mode |-> "ok", item |-> NoId, id |-> NoId,
                                   generated |-> 0, loads |-> 0])
    /\ requests = {HealthRequest}
    /\ health = [HealthIdle EXCEPT !.pc = "fetch", !.calls = 1]
    /\ scroll = ScrollIdle(TRUE)

NextTranscript ==
    \/ \E status \in Statuses : HealthResolves(status)
    \/ HealthRejects
    \/ \E body \in Bodies : HealthBodyArrives(body)
    \/ \E v \in FormInputs : TypeInput(v)
    \/ KeypressEnter /\ nSends' <= MaxPageSends
    \/ FormSubmit
    \/ \E index \in RandomIndexes : SimulatedReply(index)
    \/ \E d \in 1..nSends, status \in Statuses : FetchResolves(d, status)
    \/ \E d \in 1..nSends, error \in FetchErrors : FetchRejects(d, error)
    \/ \E d \in 1..nSends : RetryTimerFires(d)
    \/ \E d \in 1..nSends, body \in Bodies : BodyArrives(d, body)
    \/ ClearChatClick
    \/ NewChatClick

SpecTranscript == InitTranscript /\ [][NextTranscript]_vars

\* ===================================================== addMessage alone
MaxRenderLen == 3      \* tokens in a text handed to addMessage
MaxRendered == 1       \* entries appended in one behaviour

\* the characters the formatting looks for, a word, and a tag
RenderChars == {"#", "-", "**", " ", "\n", "a", "<b>"}

RenderTexts == UNION {[1..n -> RenderChars] : n \in 1..MaxRenderLen}

Senders == {"user", "bot", "error"}

\* lines 159-202: addMessage(text, sender)
AddMessage(text, sender) ==
    /\ page = "ready"
    /\ Len(chatMessages) < MaxRendered
    /\ chatMessages' = Append(chatMessages, MessageElement(text, sender, 0))
    /\ Quiet
    /\ UNCHANGED <<userInputValue, userInputDisabled, sendButtonDisabled, intervals,
                   onLine, nSends, page, session, requests, health, scroll,
                   pendingReplies>>

NextRender == \E text \in RenderTexts, sender \in Senders : AddMessage(text, sender)

SpecRender == Init /\ [][NextRender]_vars

\* ------------------------------------------------------------------ C11
ChatRequests == {r \in requests : r.url = "/api/chat"}

\* the values the script has read from sessionId: the headers it sent and
\* the variable as it stands
ReadIds ==
    {r.sid : r \in ChatRequests} \cup (IF page = "ready" THEN {session.id} ELSE {})

\* C11: an identifier is generated only by a script run that finds none in
\* the tab's storage, and it is stored by that run when storage accepts
\* writes; whatever sends, retries and reloads have happened, every
\* X-Session-ID header sent and the sessionId variable hold one and the same
\* value, the one kept in the tab's storage.
C11_SessionIdStable ==
    [][/\ session'.generated # session.generated =>
           /\ session.item = NoId
           /\ session'.id = session'.generated
           /\ session.mode = "ok" => session'.item = session'.id
       /\ ReadIds' \subseteq ({session'.item} \ {NoId})]_vars

\* the script ran twice in the tab and sent attempts of a dispatch in both
\* runs, the second of them after a retry
C11_Witness ==
    /\ page = "ready"
    /\ session.loads = 2
    /\ \E r \in ChatRequests : r.load = 1
    /\ \E r \in ChatRequests : r.load = 2
    /\ \E d \in 1..nSends : disp[d].calls >= 2

\* ------------------------------------------------------------------ C12
\* C12: when the tab's storage throws on reading or on writing, the script
\* still runs to its end, so that the widget is initialised and its send
\* handlers are attached.
C12_StorageFailsSafe ==
    session.mode # "ok" /\ session.loads > 0 /\ page # "unloaded" => page = "ready"

\* ------------------------------------------------------------------ C13
\* C13: the health probe makes one network call and no more, and once the
\* DOMContentLoaded handler is through it has appended one error entry if
\* the probe got a non-2xx answer or no answer, and none if it got a 2xx
\* answer, whatever the body.
C13_HealthProbe ==
    /\ health.calls <= 1
    /\ health.pc = "done" =>
           /\ health.calls = 1
           /\ health.entries = IF ResponseOk(health.status) THEN 0 ELSE 1

\* ------------------------------------------------------------------ C14
\* C14 as stated: every request the script has made, chat or health,
\* carried the session identifier in X-Session-ID.
C14_Original ==
    \A r \in requests : r.sid # NoId /\ r.sid = session.item

\* C14: every attempt of every chat dispatch carried the tab's session
\* identifier in X-Session-ID; the health probe carried no such header.
C14_ChatRequestsCarryId ==
    /\ \A r \in requests :
           IF r.url = "/api/chat"
           THEN r.sid # NoId /\ r.sid = session.item
           ELSE r.sid = NoId
    /\ \A d \in 1..nSends : disp[d].calls > 0 => ChatRequest \in requests

\* a dispatch went through all its attempts after the health probe was sent
C14_Witness ==
    /\ \E d \in 1..nSends : disp[d].calls = MAX_RETRIES
    /\ ChatRequest \in requests
    /\ HealthRequest \in requests

\* ------------------------------------------------------------------ C15
\* the entries of the transcript that are not the typing indicator
RealEntries(dom) == SelectSeq(dom, LAMBDA e : ~IsTyping(e))

IsPrefix(a, b) == Len(a) <= Len(b) /\ SubSeq(b, 1, Len(a)) = a

GreetingOnly(dom) ==
    /\ Len(dom) = 1
    /\ dom[1].tag = "message" /\ dom[1].sender = "bot"
    /\ dom[1].text \in {GreetingClear, GreetingNew}

\* C15 as stated: whatever the step (a send, the health probe, a clear-chat
\* or new-chat click, a form submit), the real entries of the transcript
\* before it are still there after it, unmodified and in order, followed by
\* what the step appended.
C15_Original ==
    [][IsPrefix(RealEntries(chatMessages), RealEntries(chatMessages'))]_vars

\* C15: every step other than a clear-chat or new-chat click keeps the real
\* entries of the transcript, unmodified and in order, and only appends to
\* them and removes the typing indicator; a clear-chat or new-chat click
\* leaves a single greeting entry in place of the whole transcript.
C15_AppendOnlyBetweenClears ==
    [][\/ IsPrefix(RealEntries(chatMessages), RealEntries(chatMessages'))
       \/ GreetingOnly(chatMessages')]_vars

\* a dispatch has just settled and its typing indicator is gone, in a
\* transcript that also holds the entry of a failed health probe and both
\* entries of a form submit
C15_Witness ==
    /\ \E d \in 1..nSends : disp[d].pc = "done"
    /\ ~HasTyping(chatMessages)
    /\ \E k \in 1..Len(chatMessages) : chatMessages[k].text = MsgNoService
    /\ \E k \in 1..Len(chatMessages) : chatMessages[k] = UIMessageElement(SimulatedResponses[1], FALSE)
    /\ \E k \in 1..Len(chatMessages) : chatMessages[k] = UIMessageElement(<<"a">>, TRUE)

\* ------------------------------------------------------------------ C16
Tokens(s) == {s[k] : k \in 1..Len(s)}

\* a text none of the patterns of lines 178-186 can match
IsPlain(s) == Tokens(s) \cap {"#", "-", "**", "\n"} = {}

\* C16: an entry appended with sender user or error holds its text as
\* literal text, token for token, and is not parsed as markup; an entry is
\* parsed as markup only if its sender is bot, and a bot entry holds its text
\* after the header, bold, bullet, paragraph and line-break transforms,
\* wrapped in a paragraph: no line feed is left in it, a pair of ** on one
\* line has become a strong element, and a text without formatting
\* characters is unchanged.
C16_MarkupOnlyForBot ==
    \A k \in 1..Len(chatMessages) :
        LET e == chatMessages[k]
        IN  e.tag = "message" =>
              /\ e.sender \in {"user", "error"} => ~e.html /\ e.content = e.text
              /\ e.html => e.sender = "bot"
              /\ e.sender = "bot" =>
                    /\ e.html
                    /\ Head(e.content) = "<p>"
                    /\ e.content[Len(e.content)] = "</p>"
                    /\ "\n" \notin Tokens(e.content)
                    /\ IsPlain(e.text) => e.content = <<"<p>">> \o e.text \o <<"</p>">>
                    /\ (\E p \in 1..Len(e.text) : e.text[p] = "**" /\ Closings(e.text, p) # {})
                          => "<strong>" \in Tokens(e.content)

\* an error entry whose text is full of markup was appended and holds it
\* as it is
C16_Witness ==
    \E k \in 1..Len(chatMessages) :
        /\ chatMessages[k].sender = "error"
        /\ chatMessages[k].text = <<"<b>", "**", "**">>
        /\ chatMessages[k].content = <<"<b>", "**", "**">>
        /\ ~chatMessages[k].html

\* ------------------------------------------------------------------ C17
IsAbort(error) == error.name = "AbortError"

\* C17: a fetch that rejects with anything but an AbortError while an
\* attempt is left is followed by one RETRY_DELAY timer and then one more
\* network call; a rejection at the third attempt, or an AbortError at any
\* attempt, settles the dispatch at once with that error and makes no
\* further call.  At every moment a dispatch has made as many calls as
\* attempts, between 1 and MAX_RETRIES, and a settled dispatch with fewer
\* than MAX_RETRIES calls ended on an ok or 4xx response or on an AbortError.
C17_TransportRetry ==
    [][\A d \in 1..nSends :
          LET a == disp[d]
              b == disp'[d]
          IN  /\ (a.pc = "fetch" /\ b.pc = "delay")
                    => /\ a.i < MAX_RETRIES - 1
                       /\ ~IsAbort(b.rejected)
                       /\ b.calls = a.calls
                       /\ b.trace = Append(a.trace, Delay(RETRY_DELAY))
              /\ (a.pc = "delay" /\ b.pc # "delay")
                    => b.pc = "fetch" /\ b.calls = a.calls + 1
                       /\ b.trace = Append(a.trace, Call)
              /\ (a.pc = "fetch" /\ b.pc = "done")
                    => /\ b.caught \in FetchErrors
                       /\ IsAbort(b.caught) \/ a.i = MAX_RETRIES - 1
                       /\ b.calls = a.calls /\ b.trace = a.trace
                       /\ Outcome(d)' = [sender |-> "error",
                                         text |-> ErrorMessage(onLine, b.caught),
                                         typing |-> b.adds[Len(b.adds)].typing]
              /\ b.pc \in {"fetch", "delay", "json", "done"}
                    => b.calls = b.i + 1 /\ b.calls \in 1..MAX_RETRIES
              /\ (b.pc = "done" /\ b.calls < MAX_RETRIES)
                    => OkOr4xx(b.status) \/ IsAbort(b.caught)
       ]_vars

\* a dispatch whose three attempts all met a transport failure has settled
\* on the error of the third
C17_Witness ==
    \E d \in 1..nSends :
        /\ Settled(d)
        /\ disp[d].caught = [name |-> "TypeError", message |-> <<"Failed to fetch">>]
        /\ disp[d].calls = MAX_RETRIES
        /\ disp[d].trace = <<Call, Delay(RETRY_DELAY), Call, Delay(RETRY_DELAY), Call>>

\* ------------------------------------------------------------------ C18
ControlsEnabled == ~userInputDisabled /\ ~sendButtonDisabled

\* C18: when every pending fetch, retry timer and body read eventually
\* completes, every dispatch in flight eventually settles, and whenever the
\* controls are disabled they are eventually enabled again.
C18_EventuallySettles ==
    /\ \A d \in 1..MaxSends : InFlight(d) ~> ~InFlight(d)
    /\ ~ControlsEnabled ~> ControlsEnabled

\* a dispatch has gone through its three attempts and settled on an error
\* entry, and the controls are enabled
C18_Witness ==
    \E d \in 1..nSends :
        /\ Settled(d)
        /\ disp[d].calls = MAX_RETRIES
        /\ Outcome(d).sender = "error"
        /\ ControlsEnabled

\* ------------------------------------------------------------------ C19
FlagMeansOneTimer ==
    /\ scroll.cleanups <= 1
    /\ scroll.isScrolling <=> scroll.cleanups = 1

\* C19 as stated: the flag is true exactly while one cleanup timer is
\* pending, and no scroll was ever started while the animation of an
\* earlier one was under way.
C19_Original == FlagMeansOneTimer /\ ~scroll.overlapped

\* C19: the flag is true exactly while one 400 ms cleanup timer is pending;
\* a call made while the flag is true returns without starting a scroll or
\* setting a timer, a scroll is started only while the flag is false and
\* sets one cleanup timer, and the flag goes from true to false only in the
\* step in which that timer fires.
C19_FlagGuardsScroll ==
    /\ []FlagMeansOneTimer
    /\ [][/\ scroll'.started # scroll.started =>
              /\ ~scroll.isScrolling /\ scroll'.isScrolling
              /\ scroll'.cleanups = scroll.cleanups + 1
          /\ scroll.isScrolling /\ scroll'.refused =>
              /\ scroll'.started = scroll.started
              /\ scroll'.cleanups = scroll.cleanups
              /\ scroll'.focuses = scroll.focuses
              /\ scroll'.animating = scroll.animating
          /\ scroll.isScrolling /\ ~scroll'.isScrolling =>
              scroll'.cleanups = scroll.cleanups - 1]_vars

\* a call was refused while the flag was set, the timer of the scroll
\* before it still pending and its animation already over
C19_Witness ==
    /\ scroll.refused
    /\ scroll.isScrolling
    /\ scroll.cleanups = 1
    /\ ~scroll.animating
    /\ scroll.started = 2

\* ------------------------------------------------------------------ C20
NumTyping(dom) == Cardinality({k \in 1..Len(dom) : IsTyping(dom[k])})

\* C20: the transcript never holds more than one typing indicator, and
\* whenever no dispatch is in flight it holds none and no dot-animation
\* interval is running.
C20_IndicatorCleanedUp ==
    /\ NumTyping(chatMessages) <= 1
    /\ (\A d \in 1..nSends : ~InFlight(d)) =>
           ~HasTyping(chatMessages) /\ intervals = {}

====
